---------------------------- MODULE Spec2Model ----------------------------
(***************************************************************************)
(* A model of the IPO / volatility / upcoming-IPO alerting batch job       *)
(* (main.py and the checkers under src/).                                  *)
(*                                                                         *)
(* Conventions                                                             *)
(*   - Python's None is the string "None" where a string is expected, the  *)
(*     empty tuple NoneNum where a number is expected (a number n is the   *)
(*     tuple <<n>>), and a record of None fields where an object is        *)
(*     expected.  A dict is a function whose domain is its key set.        *)
(*   - A calendar date is a day number (an integer); a date string is a    *)
(*     record [fmt, day] naming the textual format it is written in, so    *)
(*     that parsing and formatting are not the identity.                   *)
(*   - A price is an integer number of price units; a percentage is an     *)
(*     integer number of hundredths of a percent after rounding.  Floating *)
(*     point arithmetic is modelled as exact rational arithmetic.          *)
(*   - All datetime.now() calls of one run give the same calendar day      *)
(*     (a run takes seconds; runs are the unit the day is attached to).    *)
(***************************************************************************)
EXTENDS Integers, Sequences, FiniteSets, TLC

None == "None"

EmptyDict == [k \in {} |-> None]

\* an Optional number: None, or <<n>>
NoneNum == <<>>

Num(n) == <<n>>

Val(o) == o[1]

\* dict.get(k) for a key holding a string (default None)
Get(d, k) == IF k \in DOMAIN d THEN d[k] ELSE None

\* dict.get(k) for a key holding a number (default None)
GetNum(d, k) == IF k \in DOMAIN d THEN d[k] ELSE NoneNum

\* dict.get(k, default)
GetOr(d, k, default) == IF k \in DOMAIN d THEN d[k] ELSE default

\* d[k] = v
Put(d, k, v) == [x \in (DOMAIN d) \cup {k} |-> IF x = k THEN v ELSE d[x]]

\* Python truthiness of an Optional string (None and "" are falsy)
Truthy(v) == v # None /\ v # ""

\* Python truthiness of an Optional number (None and 0 are falsy)
TruthyNum(o) == o # NoneNum /\ Val(o) # 0

(***************************************************************************)
(* IPO status (src/src/ipo_checker.py)                                     *)
(***************************************************************************)
IPOStatus ==
    {"NOT_FOUND", "UPCOMING", "SUBSCRIPTION_OPEN", "SUBSCRIPTION_CLOSED",
     "ALLOTMENT_PENDING", "ALLOTMENT_DONE", "LISTED", "TRADING"}

\* IPOStatus.<member>.value
StatusValue(s) ==
    CASE s = "NOT_FOUND" -> "not_found"
      [] s = "UPCOMING" -> "upcoming"
      [] s = "SUBSCRIPTION_OPEN" -> "subscription_open"
      [] s = "SUBSCRIPTION_CLOSED" -> "subscription_closed"
      [] s = "ALLOTMENT_PENDING" -> "allotment_pending"
      [] s = "ALLOTMENT_DONE" -> "allotment_done"
      [] s = "LISTED" -> "listed"
      [] s = "TRADING" -> "trading"

IPOInfo(symbol, status, company_name, exchange, price) ==
    [symbol |-> symbol, status |-> status, company_name |-> company_name,
     exchange |-> exchange, price |-> price]

\* the None a source check returns on a request error
NoInfo == IPOInfo(None, None, None, None, None)

NotFoundInfo(symbol) == IPOInfo(symbol, "NOT_FOUND", None, None, None)

\* no IPOInfo at all: the source check let an AttributeError escape
AttributeError == IPOInfo(None, "AttributeError", None, None, None)

(***************************************************************************)
(* The three sources of IPOChecker.  A source's answer is what the HTTP    *)
(* request gave: "request_error" (requests.RequestException), or a page.   *)
(***************************************************************************)
\* "other_price": the page served for the symbol is the quote page of
\* another ticker
YahooAnswers == {"request_error", "no_price", "price", "other_price"}

Sections == <<"upcoming", "priced", "filed">>

\* the NASDAQ calendar answer: a request error, a non-200 reply, a 200 reply
\* whose JSON has "data": null (the error envelope of the API), or the set of
\* calendar sections that hold a row for the symbol
NasdaqAnswers ==
    [kind : {"request_error", "bad_status", "no_data"}, found : {{}}]
        \cup [kind : {"calendar"}, found : SUBSET {"upcoming", "priced", "filed"}]

MarketWatchAnswers == {"request_error", "no_price", "price", "other_price"}

\* _check_yahoo_finance: None on a request error, else an IPOInfo
_check_yahoo_finance(symbol, answer) ==
    IF answer = "request_error" THEN NoInfo
    ELSE IF answer = "price"
         THEN IPOInfo(symbol, "TRADING", "Co", "NYSE", "10.00")
    ELSE IF answer = "other_price"
         THEN IPOInfo(symbol, "TRADING", "Other Co", "NYSE", "99.00")
         ELSE NotFoundInfo(symbol)

\* the first of the sections upcoming, priced, filed that lists the symbol
RECURSIVE FirstSection(_, _)
FirstSection(found, i) ==
    IF i > Len(Sections) THEN None
    ELSE IF Sections[i] \in found THEN Sections[i]
         ELSE FirstSection(found, i + 1)

SectionStatus_PricedIsUpcoming(section) == "UPCOMING"

SectionStatus_UpcomingIsOpen(section) ==
    IF section = "priced" THEN "SUBSCRIPTION_CLOSED"
    ELSE IF section = "upcoming" THEN "SUBSCRIPTION_OPEN"
         ELSE "UPCOMING"

SectionStatus(section) ==
    IF section = "priced" THEN "SUBSCRIPTION_CLOSED"
    ELSE IF section = "upcoming" THEN "UPCOMING"
         ELSE "UPCOMING"

\* lines 123-166; with "data": null, data.get("data", {}) is None and
\* None.get(section, {}) raises AttributeError, which only the caller of
\* main could catch
_check_nasdaq_ipo_calendar(symbol, answer) ==
    IF answer.kind = "request_error" THEN NoInfo
    ELSE IF answer.kind = "bad_status" THEN NotFoundInfo(symbol)
    ELSE IF answer.kind = "no_data" THEN AttributeError
         ELSE LET section == FirstSection(answer.found, 1)
              IN  IF section = None THEN NotFoundInfo(symbol)
                  ELSE IPOInfo(symbol, SectionStatus(section), "Co", "NASDAQ", None)

_check_marketwatch(symbol, answer) ==
    IF answer = "request_error" THEN NoInfo
    ELSE IF answer = "price"
         THEN IPOInfo(symbol, "TRADING", "Co", None, "10.00")
    ELSE IF answer = "other_price"
         THEN IPOInfo(symbol, "TRADING", "Other Co", None, "99.00")
         ELSE NotFoundInfo(symbol)

\* `info and info.status != IPOStatus.NOT_FOUND`
Definite(info) == info # NoInfo /\ info.status # "NOT_FOUND"

\* IPOChecker.check_status: the first definite source wins
check_status(symbol, yahoo, nasdaq, marketwatch) ==
    LET y == _check_yahoo_finance(symbol, yahoo)
        n == _check_nasdaq_ipo_calendar(symbol, nasdaq)
        m == _check_marketwatch(symbol, marketwatch)
    IN  IF Definite(y) THEN y
        ELSE IF n = AttributeError THEN AttributeError
        ELSE IF Definite(n) THEN n
             ELSE IF Definite(m) THEN m
                  ELSE NotFoundInfo(symbol)

\* the sources check_status requests, in the order of its calls: each call is
\* made only if no earlier one returned a definite result or raised
sources_consulted(symbol, yahoo, nasdaq, marketwatch) ==
    LET y == _check_yahoo_finance(symbol, yahoo)
        n == _check_nasdaq_ipo_calendar(symbol, nasdaq)
    IN  IF Definite(y) THEN <<"yahoo">>
        ELSE IF n = AttributeError \/ Definite(n) THEN <<"yahoo", "nasdaq">>
             ELSE <<"yahoo", "nasdaq", "marketwatch">>

(***************************************************************************)
(* The IPO alert decision (src/main.py)                                    *)
(***************************************************************************)
AlertStatuses == {"SUBSCRIPTION_OPEN", "ALLOTMENT_DONE", "LISTED", "TRADING"}

should_send_ipo_alert_NoChangeTest(current_info, previous_state) ==
    current_info.status \in AlertStatuses

should_send_ipo_alert(current_info, previous_state) ==
    LET previous_status == Get(previous_state, "status")
        current_status == current_info.status
    IN  IF previous_status = StatusValue(current_status) THEN FALSE
        ELSE current_status \in AlertStatuses

IpoStateEntry(ipo_info) ==
    [status |-> StatusValue(ipo_info.status),
     company_name |-> ipo_info.company_name,
     exchange |-> ipo_info.exchange,
     price |-> ipo_info.price]

\* check_ipo_symbol, given what check_ipo_status returned: the number of
\* notification attempts and the in-memory state map afterwards
check_ipo_symbol(symbol, ipo_info, states) ==
    LET previous_state == GetOr(states, symbol, EmptyDict)
    IN  [attempts |-> IF should_send_ipo_alert(ipo_info, previous_state) THEN 1 ELSE 0,
         states |-> Put(states, symbol, IpoStateEntry(ipo_info))]

(***************************************************************************)
(* Volatility (src/src/volatility_checker.py)                              *)
(***************************************************************************)
VOLATILITY_THRESHOLD_PERCENT == 5

VolatilityInfo(symbol, current_price, company_name, currency, error) ==
    [symbol |-> symbol, current_price |-> current_price, previous_price |-> NoneNum,
     change_percent |-> NoneNum, movement |-> "NONE", company_name |-> company_name,
     currency |-> currency, error |-> error]

\* VolatilityInfo.has_significant_movement
has_significant_movement(info) == info.movement \in {"RALLY", "DROP"}

(***************************************************************************)
(* What the Yahoo chart request gave:                                      *)
(*   [kind |-> "request_error", msg]      requests.RequestException(msg)   *)
(*   [kind |-> "quote", symbol, price]    200 with a result; price may be  *)
(*                                        None (NoneNum) or 0              *)
(*   [kind |-> "error_payload", description]  a chart.error object;        *)
(*                                        description None when missing    *)
(*   [kind |-> "no_json"]                 a body that is not JSON          *)
(***************************************************************************)
_get_current_price(symbol, answer) ==
    CASE answer.kind = "request_error" ->
            VolatilityInfo(symbol, NoneNum, None, "USD", answer.msg)
      [] answer.kind = "quote" ->
            IF answer.symbol # symbol
            THEN VolatilityInfo(symbol, NoneNum, None, "USD", "Symbol mismatch")
            ELSE IF TruthyNum(answer.price)
                 THEN VolatilityInfo(symbol, answer.price, "Co", "USD", None)
                 ELSE VolatilityInfo(symbol, NoneNum, None, "USD", "Failed to fetch price data")
      [] answer.kind = "error_payload" ->
            VolatilityInfo(symbol, NoneNum, None, "USD",
                           IF answer.description = None THEN "Unknown error"
                           ELSE answer.description)
      [] OTHER ->
            VolatilityInfo(symbol, NoneNum, None, "USD", "Failed to fetch price data")

\* n / d rounded to the nearest integer, ties to the even one (d # 0)
RoundDiv(n, d) ==
    LET nn == IF d < 0 THEN 0 - n ELSE n
        dd == IF d < 0 THEN 0 - d ELSE d
        q == nn \div dd
        r == nn - q * dd
    IN  IF 2 * r < dd THEN q
        ELSE IF 2 * r > dd THEN q + 1
             ELSE IF q % 2 = 0 THEN q ELSE q + 1

\* round((current - previous) / previous * 100, 2), in hundredths of a percent
RoundedChangePercent(current, previous) ==
    RoundDiv((current - previous) * 10000, previous)

\* (current - previous) / previous * 100 >= k, on the unrounded quotient
ChangeAtLeast(current, previous, k) ==
    IF previous > 0 THEN (current - previous) * 100 >= k * previous
    ELSE (current - previous) * 100 =< k * previous

\* (current - previous) / previous * 100 <= k, on the unrounded quotient
ChangeAtMost(current, previous, k) ==
    IF previous > 0 THEN (current - previous) * 100 =< k * previous
    ELSE (current - previous) * 100 >= k * previous

\* lines 73-77: the movement, decided on the unrounded change
Movement(current, previous) ==
    IF ChangeAtLeast(current, previous, VOLATILITY_THRESHOLD_PERCENT) THEN "RALLY"
    ELSE IF ChangeAtMost(current, previous, 0 - VOLATILITY_THRESHOLD_PERCENT) THEN "DROP"
         ELSE "NONE"

\* VolatilityChecker.check_volatility: [raised, info]; raised is the
\* ZeroDivisionError of line 70
check_volatility(symbol, answer, previous_price) ==
    LET price_info == _get_current_price(symbol, answer)
    IN  IF Truthy(price_info.error)
        THEN [raised |-> FALSE, info |-> price_info]
        ELSE IF previous_price = NoneNum \/ price_info.current_price = NoneNum
             THEN [raised |-> FALSE, info |-> price_info]
             ELSE IF Val(previous_price) = 0
                  THEN [raised |-> TRUE,
                        info |-> [price_info EXCEPT !.previous_price = previous_price]]
                  ELSE [raised |-> FALSE,
                        info |-> [price_info EXCEPT
                                    !.previous_price = previous_price,
                                    !.change_percent =
                                        Num(RoundedChangePercent(
                                                Val(price_info.current_price),
                                                Val(previous_price))),
                                    !.movement =
                                        Movement(Val(price_info.current_price),
                                                 Val(previous_price))]]

VolStateEntry(vol_info) ==
    [price |-> vol_info.current_price,
     company_name |-> vol_info.company_name,
     currency |-> vol_info.currency]

check_volatility_symbol_RecordOnError(symbol, answer, states) ==
    LET previous_price == GetNum(GetOr(states, symbol, EmptyDict), "price")
        res == check_volatility(symbol, answer, previous_price)
    IN  [raised |-> res.raised, info |-> res.info,
         attempts |-> IF has_significant_movement(res.info) THEN 1 ELSE 0,
         states |-> IF res.raised THEN states
                    ELSE Put(states, symbol, VolStateEntry(res.info))]

check_volatility_symbol_NoBaseline(symbol, answer, states) ==
    LET previous_price == GetNum(GetOr(states, symbol, EmptyDict), "price")
        res == check_volatility(symbol, answer, previous_price)
    IN  [raised |-> res.raised, info |-> res.info,
         attempts |-> IF has_significant_movement(res.info) THEN 1 ELSE 0,
         states |-> IF previous_price # NoneNum /\ TruthyNum(res.info.current_price)
                    THEN Put(states, symbol, VolStateEntry(res.info))
                    ELSE states]

check_volatility_symbol_AlertOnChange(symbol, answer, states) ==
    LET previous_price == GetNum(GetOr(states, symbol, EmptyDict), "price")
        res == check_volatility(symbol, answer, previous_price)
    IN  [raised |-> res.raised, info |-> res.info,
         attempts |-> IF res.info.change_percent # NoneNum /\ Val(res.info.change_percent) # 0
                      THEN 1 ELSE 0,
         states |-> IF ~res.raised /\ TruthyNum(res.info.current_price)
                    THEN Put(states, symbol, VolStateEntry(res.info))
                    ELSE states]

\* check_volatility_symbol: [raised, info, attempts, states]
check_volatility_symbol_RecordsWithoutPrice(symbol, answer, states) ==
    LET previous_price == GetNum(GetOr(states, symbol, EmptyDict), "price")
        res == check_volatility(symbol, answer, previous_price)
    IN  [raised |-> res.raised, info |-> res.info,
         attempts |-> IF ~res.raised /\ ~Truthy(res.info.error)
                         /\ has_significant_movement(res.info) THEN 1 ELSE 0,
         states |-> IF res.raised \/ Truthy(res.info.error) THEN states
                    ELSE Put(states, symbol,
                             [price |-> IF TruthyNum(res.info.current_price)
                                        THEN res.info.current_price ELSE Num(0),
                              company_name |-> res.info.company_name,
                              currency |-> res.info.currency])]

check_volatility_symbol(symbol, answer, states) ==
    LET previous_state == GetOr(states, symbol, EmptyDict)
        previous_price == GetNum(previous_state, "price")
        res == check_volatility(symbol, answer, previous_price)
        vol_info == res.info
    IN  IF res.raised
        THEN [raised |-> TRUE, info |-> vol_info, attempts |-> 0, states |-> states]
        ELSE IF Truthy(vol_info.error)
             THEN [raised |-> FALSE, info |-> vol_info, attempts |-> 0, states |-> states]
             ELSE [raised |-> FALSE, info |-> vol_info,
                   attempts |-> IF has_significant_movement(vol_info) THEN 1 ELSE 0,
                   states |-> IF TruthyNum(vol_info.current_price)
                              THEN Put(states, symbol, VolStateEntry(vol_info))
                              ELSE states]

(***************************************************************************)
(* Upcoming IPOs (src/src/upcoming_ipo_checker.py, src/main.py)            *)
(***************************************************************************)
ALERT_DAYS_BEFORE == 2

\* a date string: the format it is written in and the day it names
DateStr(fmt, day) == [fmt |-> fmt, day |-> day]

\* an absent (None) date string
NoDateStr == [fmt |-> None, day |-> 0]

\* the literal "TBD"
TBD == [fmt |-> "TBD", day |-> 0]

\* datetime.strptime(date_str, fmt): the day, or None for the ValueError
strptime(date_str, fmt) ==
    IF date_str.fmt = fmt THEN Num(date_str.day) ELSE NoneNum

\* datetime.strftime("%Y-%m-%d")
strftime(day) == DateStr("%Y-%m-%d", day)

OtherFormats == <<"%m/%d/%Y", "%m/%d/%y", "%Y/%m/%d">>

RECURSIVE TryFormats(_, _)
TryFormats(date_str, i) ==
    IF i > Len(OtherFormats) THEN NoneNum
    ELSE IF strptime(date_str, OtherFormats[i]) # NoneNum
         THEN strptime(date_str, OtherFormats[i])
         ELSE TryFormats(date_str, i + 1)

\* lines 108-119: the expected date of a date string, None if it has none
ParseExpectedDate(date_str) ==
    IF date_str = NoDateStr THEN NoneNum
    ELSE IF strptime(date_str, "%Y-%m-%d") # NoneNum
         THEN strptime(date_str, "%Y-%m-%d")
         ELSE TryFormats(date_str, 1)

UpcomingIPOEntry(symbol, expected_date, company_name) ==
    [symbol |-> symbol, expected_date |-> expected_date, company_name |-> company_name]

\* nasdaq_data.get(symbol): absent, or the calendar row of the symbol
NoNasdaqInfo == [present |-> FALSE, company_name |-> None, expected_date |-> NoDateStr]

NasdaqInfo(company_name, expected_date) ==
    [present |-> TRUE, company_name |-> company_name, expected_date |-> expected_date]

InAlertWindow_Exclusive(days) == 0 < days /\ days < ALERT_DAYS_BEFORE

\* line 127
InAlertWindow(days) == 0 =< days /\ days =< ALERT_DAYS_BEFORE

\* UpcomingIPOChecker._check_single_ipo (the fields the alert decision and
\* the state entry read; exchange, price range, shares and source only
\* reach the message text)
_check_single_ipo(entry, nasdaq_info, today) ==
    LET company_name ==
            IF Truthy(entry.company_name) THEN entry.company_name
            ELSE IF nasdaq_info.present THEN nasdaq_info.company_name
                 ELSE None
        date_str ==
            IF entry.expected_date = NoDateStr /\ nasdaq_info.present
                 /\ nasdaq_info.expected_date # NoDateStr
            THEN nasdaq_info.expected_date
            ELSE entry.expected_date
        expected_date == ParseExpectedDate(date_str)
        days_until_ipo ==
            IF expected_date # NoneNum THEN Num(Val(expected_date) - today) ELSE NoneNum
    IN  [symbol |-> entry.symbol,
         company_name |-> company_name,
         expected_date |-> expected_date,
         days_until_ipo |-> days_until_ipo,
         should_alert |-> days_until_ipo # NoneNum /\ InAlertWindow(Val(days_until_ipo))]

\* UpcomingIPO.format_date
format_date(ipo) ==
    IF ipo.expected_date # NoneNum THEN strftime(Val(ipo.expected_date)) ELSE TBD

process_one_upcoming_NoColdStart(ipo, today, delivered, states) ==
    LET previous_state == GetOr(states, ipo.symbol, EmptyDict)
        last_alert_date == GetOr(previous_state, "last_alert_date", NoDateStr)
    IN  IF ipo.should_alert /\ last_alert_date # strftime(today)
        THEN [attempts |-> 1,
              states |-> IF delivered
                         THEN Put(states, ipo.symbol,
                                  [last_alert_date |-> strftime(today),
                                   expected_date |-> format_date(ipo),
                                   company_name |-> ipo.company_name])
                         ELSE states]
        ELSE [attempts |-> 0, states |-> states]

\* one iteration of the loop of process_upcoming_ipos (lines 183-218):
\* the number of notification attempts and the state map afterwards
process_one_upcoming_RecordsAttempt(ipo, today, delivered, states) ==
    LET last_alert_date ==
            GetOr(GetOr(states, ipo.symbol, EmptyDict), "last_alert_date", NoDateStr)
    IN  IF ipo.should_alert /\ last_alert_date # strftime(today)
        THEN [attempts |-> 1,
              states |-> Put(states, ipo.symbol,
                             [last_alert_date |-> strftime(today),
                              expected_date |-> format_date(ipo),
                              company_name |-> ipo.company_name])]
        ELSE [attempts |-> 0,
              states |-> IF ~ipo.should_alert /\ ipo.symbol \notin DOMAIN states
                         THEN Put(states, ipo.symbol,
                                  [expected_date |-> format_date(ipo),
                                   company_name |-> ipo.company_name])
                         ELSE states]

process_one_upcoming(ipo, today, delivered, states) ==
    LET previous_state == GetOr(states, ipo.symbol, EmptyDict)
        last_alert_date == GetOr(previous_state, "last_alert_date", NoDateStr)
    IN  IF ipo.should_alert /\ last_alert_date # strftime(today)
        THEN [attempts |-> 1,
              states |-> IF delivered
                         THEN Put(states, ipo.symbol,
                                  [last_alert_date |-> strftime(today),
                                   expected_date |-> format_date(ipo),
                                   company_name |-> ipo.company_name])
                         ELSE states]
        ELSE IF ipo.should_alert
             THEN [attempts |-> 0, states |-> states]
             ELSE [attempts |-> 0,
                   states |-> IF ipo.symbol \notin DOMAIN states
                              THEN Put(states, ipo.symbol,
                                       [expected_date |-> format_date(ipo),
                                        company_name |-> ipo.company_name])
                              ELSE states]

(***************************************************************************)
(* State files (src/main.py, load_state and save_state).  A file is        *)
(* [exists, valid, data]: valid is whether its text is a JSON document.    *)
(***************************************************************************)
NoFile == [exists |-> FALSE, valid |-> FALSE, data |-> EmptyDict]

\* a watchlist file that does not exist, and one holding the given lines
NoWatchlistFile == [exists |-> FALSE, lines |-> <<>>]

WatchlistFile(lines) == [exists |-> TRUE, lines |-> lines]

\* config.py lines 114-127: no symbols when the file does not exist, else
\* the symbols of its lines
_read_watchlist_file(file_path) ==
    IF ~file_path.exists THEN <<>> ELSE file_path.lines

get_ipo_watchlist(file) == _read_watchlist_file(file)

get_volatility_watchlist(file) == _read_watchlist_file(file)

load_state_IgnoresIOError(state_file, readable) ==
    IF state_file.exists /\ state_file.valid
    THEN state_file.data
    ELSE EmptyDict

\* load_state; readable is FALSE when reading the file raises IOError
load_state(state_file, readable) ==
    IF state_file.exists /\ readable /\ state_file.valid
    THEN state_file.data
    ELSE EmptyDict

SaveOutcomes == {"ok", "open_failed", "write_failed"}

save_state_Append(state_file, states, outcome) ==
    CASE outcome = "ok" ->
             [exists |-> TRUE, valid |-> TRUE,
              data |-> [s \in DOMAIN state_file.data \cup DOMAIN states |->
                            IF s \in DOMAIN states THEN states[s]
                            ELSE state_file.data[s]]]
      [] outcome = "open_failed" -> state_file
      [] outcome = "write_failed" -> [exists |-> TRUE, valid |-> FALSE, data |-> EmptyDict]

\* save_state: the file afterwards.  "open_failed": open() raised IOError,
\* the file is as before; "write_failed": json.dump raised IOError after
\* open(..., "w") truncated the file
save_state(state_file, states, outcome) ==
    CASE outcome = "ok" -> [exists |-> TRUE, valid |-> TRUE, data |-> states]
      [] outcome = "open_failed" -> state_file
      [] outcome = "write_failed" -> [exists |-> TRUE, valid |-> FALSE, data |-> EmptyDict]

(***************************************************************************)
(* Bounds of the exploration                                               *)
(***************************************************************************)
\* runs of main() in one behaviour
MaxRuns == 3

\* the last calendar day a run may start on (the first is day 0)
MaxDay == 2

\* the tickers the IPO calendars may list, in sorted order
Tickers == <<"AAA", "BBB">>

\* the volatility watchlist of a deployment that uses one
VolSymbols == <<"XYZ", "ZZZ">>

\* prices a quote may carry: 30000 -> 31500 is +5.00%, 30000 -> 31499 is
\* +4.9967% (reported +5.00), 30000 -> 28500 is -5.00%, 31500 -> 33075 is +5.00%
PriceSamples == {28500, 30000, 31499, 31500, 33075}

\* the expected days the IPO sources may report for a ticker
ExpectedDaySamples == {2, 5}

Range(seq) == {seq[i] : i \in 1..Len(seq)}

\* sorted(S) for a set of tickers
Sorted(S) == SelectSeq(Tickers, LAMBDA t : t \in S)

VARIABLES
    pc,                    \* where main() is
    today,                 \* the calendar day of the current (or last) run
    runs,                  \* runs started so far
    exit_code,             \* what the last finished run returned (None before)
    scenario,              \* which pipeline's environment the behaviour varies
    ipoWatchFile,          \* ipoWatchList.txt: [exists, lines], a symbol a line
    volWatchFile,          \* volatilityWatchList.txt
    upcWatchFile,          \* upcomingIPOList.txt: a sequence of rows
    ipoDatesFile,          \* ipo_watchlist_dates.json: symbol -> date string
    ipoStateFile,          \* ipo_state.json
    volStateFile,          \* volatility_state.json
    upcStateFile,          \* upcoming_ipo_state.json
    ipo_watchlist,         \* the symbols main() has still to check
    volatility_watchlist,
    upcoming_ipos,         \* the UpcomingIPO objects still to process
    ipo_states,            \* the in-memory state maps of main()
    volatility_states,
    upcoming_ipo_states,
    lastCheck,             \* history: the last per-symbol check made
    hist,                  \* history: per symbol, the last classification
    upcHist                \* history: per ticker, the last delivered upcoming alert

vars ==
    <<pc, today, runs, exit_code, scenario, ipoWatchFile, volWatchFile,
      upcWatchFile, ipoDatesFile, ipoStateFile, volStateFile, upcStateFile,
      ipo_watchlist, volatility_watchlist, upcoming_ipos, ipo_states,
      volatility_states, upcoming_ipo_states, lastCheck, hist, upcHist>>

files ==
    <<ipoWatchFile, volWatchFile, upcWatchFile, ipoDatesFile, ipoStateFile,
      volStateFile, upcStateFile>>

locals ==
    <<ipo_watchlist, volatility_watchlist, upcoming_ipos, ipo_states,
      volatility_states, upcoming_ipo_states>>

env == <<today, runs, scenario>>

\* history of one symbol: the run that last classified it (0: none), the
\* IPO status or the movement it found, whether every fetch of that check
\* failed, the last classification made from a fetch that did not fail,
\* and the price of the last volatility check that obtained one
NoHist == [run |-> 0, value |-> None, failed |-> FALSE, good |-> None,
           price |-> NoneNum]

\* history of one ticker of the upcoming-IPO watchlist: the run in which an
\* alert for it was last delivered (0: none), the day of that run, the
\* expected date that alert was for, and the number of alerts delivered
\* for that expected date so far
NoUpcHist == [run |-> 0, day |-> 0, expected |-> NoneNum, count |-> 0]

\* history of one check: the symbol, what the environment gave, the state
\* map before and after it, what the checker returned, the notification
\* attempts made, whether the notifier reported delivery, whether the check
\* raised, whether every fetch failed, and the symbol's history before it
Check(kind, symbol, input, before, after, info, attempts, delivered, raised, all_failed, prior) ==
    [kind |-> kind, symbol |-> symbol, input |-> input, before |-> before,
     after |-> after, info |-> info, attempts |-> attempts, delivered |-> delivered,
     raised |-> raised, all_failed |-> all_failed, prior |-> prior]

NoCheck ==
    Check("none", None, None, EmptyDict, EmptyDict, NoInfo, 0, FALSE, FALSE, FALSE, NoHist)

(***************************************************************************)
(* The environment.  A behaviour varies the environment of one pipeline    *)
(* (its source answers, notifier and state file) and holds that of the     *)
(* other two to the quiet case: the pipelines share no state but the IPO   *)
(* watchlist that the sync writes.                                         *)
(***************************************************************************)
Scenarios == {"ipo", "volatility", "upcoming"}

\* what the notifier may report for an alert of the pipeline
Deliveries(kind) == IF scenario = kind THEN BOOLEAN ELSE {TRUE}

\* whether reading the state file of the pipeline may raise IOError
Readables(kind) == IF scenario = kind THEN BOOLEAN ELSE {TRUE}

\* what writing the state file of the pipeline may do
Saves(kind) == IF scenario = kind THEN SaveOutcomes ELSE {"ok"}

\* the answers of the sources when nothing happens to a symbol
QuietIpoAnswer ==
    <<"no_price", [kind |-> "calendar", found |-> {"upcoming"}], "no_price">>

\* the answers of Yahoo Finance, the NASDAQ calendar and MarketWatch: every
\* combination for the first ticker of the IPO deployment, the quiet one
\* for the others
IpoAnswers(symbol) ==
    IF scenario = "ipo" /\ symbol = Tickers[1]
    THEN YahooAnswers \X NasdaqAnswers \X MarketWatchAnswers
    ELSE {QuietIpoAnswer}

\* what check_ipo_status may return for a symbol, and whether every source
\* raised a request error
IpoOutcomes(symbol) ==
    {[info |-> check_status(symbol, a[1], a[2], a[3]),
      all_failed |-> /\ a[1] = "request_error"
                     /\ a[2].kind = "request_error"
                     /\ a[3] = "request_error"] : a \in IpoAnswers(symbol)}

\* the price of a symbol to which nothing happens
QuietPrice == 30000

\* what the chart request for a symbol may give: every kind of answer for
\* the first symbol of the watchlist, a steady quote for the others
VolAnswers(symbol) ==
    IF symbol = VolSymbols[1]
    THEN [kind : {"request_error"}, msg : {"timeout", ""}]
             \cup [kind : {"quote"}, symbol : {symbol, "OTHER"},
                   price : {NoneNum, Num(0)} \cup {Num(p) : p \in PriceSamples}]
             \cup [kind : {"error_payload"}, description : {None, "", "No data found"}]
             \cup [kind : {"no_json"}]
    ELSE {[kind |-> "quote", symbol |-> symbol, price |-> Num(QuietPrice)]}

\* the request gave no price for the symbol: a network failure, an error
\* payload, another ticker's data, or a quote without a price
VolFetchFailed(symbol, answer) ==
    \/ answer.kind # "quote"
    \/ answer.symbol # symbol
    \/ ~TruthyNum(answer.price)

\* what the IPO sources may report: for some of the tickers, an expected
\* date (or none)
FetchResults ==
    CASE scenario = "upcoming" ->
            UNION {[S -> {NoneNum} \cup {Num(d) : d \in ExpectedDaySamples}] :
                     S \in SUBSET Range(Tickers)}
      [] scenario = "ipo" ->
            UNION {[S -> {Num(MaxDay + ALERT_DAYS_BEFORE + 1)}] : S \in SUBSET Range(Tickers)}
      [] OTHER -> {EmptyDict}

(***************************************************************************)
(* A run of main() (src/main.py, lines 221-269)                            *)
(***************************************************************************)
\* the day of the next run: the same day or the day after (the calendar
\* only matters to the upcoming-IPO pipeline)
Tomorrows ==
    IF scenario = "upcoming" THEN {d \in {today, today + 1} : d =< MaxDay}
    ELSE {today}

\* the scheduler starts the next run
BeginRun ==
    /\ pc = "idle"
    /\ runs < MaxRuns
    /\ runs' = runs + 1
    /\ today' \in Tomorrows
    /\ pc' = "config"
    /\ exit_code' = None
    /\ lastCheck' = NoCheck
    /\ UNCHANGED <<scenario, files, locals, hist, upcHist>>

\* Config.from_env (config.py lines 57-106); token and chat_id tell whether
\* TELEGRAM_BOT_TOKEN and TELEGRAM_CHAT_ID are found in the environment or
\* the keychain.  The credentials of the other two bots fall back to these.
from_env(token, chat_id) ==
    IF ~token THEN "ValueError"
    ELSE IF ~chat_id THEN "ValueError"
         ELSE "Config"

\* the record of the configuration step: the credentials it found
ConfigCheck(token, chat_id) ==
    Check("config", None, [token |-> token, chat_id |-> chat_id], EmptyDict, EmptyDict,
          NoInfo, 0, FALSE, FALSE, FALSE, NoHist)

\* the record of a load_state call: the file, whether it could be read, and
\* the map returned
LoadCheck(state_file, readable, states) ==
    Check("load", None, [state_file |-> state_file, readable |-> readable],
          EmptyDict, states, NoInfo, 0, FALSE, FALSE, FALSE, NoHist)

\* lines 226-230: get_config() raises ValueError
ConfigError ==
    /\ pc = "config"
    /\ \E token \in BOOLEAN, chat_id \in BOOLEAN :
           /\ from_env(token, chat_id) = "ValueError"
           /\ lastCheck' = ConfigCheck(token, chat_id)
    /\ pc' = "idle"
    /\ exit_code' = "1"
    /\ UNCHANGED <<env, files, locals, hist, upcHist>>

\* lines 226-235: the configuration loads, the notifiers are built
ConfigOk ==
    /\ pc = "config"
    /\ \E token \in BOOLEAN, chat_id \in BOOLEAN :
           /\ from_env(token, chat_id) = "Config"
           /\ lastCheck' = ConfigCheck(token, chat_id)
    /\ pc' = "ipo"
    /\ UNCHANGED <<exit_code, env, files, locals, hist, upcHist>>

\* lines 238-246, the else branch
IpoWatchlistEmpty ==
    /\ pc = "ipo"
    /\ get_ipo_watchlist(ipoWatchFile) = <<>>
    /\ pc' = "vol"
    /\ lastCheck' = NoCheck
    /\ UNCHANGED <<exit_code, env, files, locals, hist, upcHist>>

\* lines 238-241
IpoLoad ==
    /\ pc = "ipo"
    /\ get_ipo_watchlist(ipoWatchFile) # <<>>
    /\ \E readable \in Readables("ipo") :
           /\ ipo_states' = load_state(ipoStateFile, readable)
           /\ lastCheck' = LoadCheck(ipoStateFile, readable,
                                     load_state(ipoStateFile, readable))
    /\ ipo_watchlist' = get_ipo_watchlist(ipoWatchFile)
    /\ pc' = "ipo_check"
    /\ UNCHANGED <<exit_code, env, files, volatility_watchlist, upcoming_ipos,
                   volatility_states, upcoming_ipo_states, hist, upcHist>>

\* lines 242-243: one iteration, check_ipo_symbol and the notifier's answer;
\* an exception that escapes check_ipo_status ends the process with a
\* traceback (status 1)
IpoCheck ==
    /\ pc = "ipo_check"
    /\ ipo_watchlist # <<>>
    /\ LET symbol == Head(ipo_watchlist)
       IN  \E o \in IpoOutcomes(symbol), delivered \in Deliveries("ipo") :
               LET raised == o.info = AttributeError
                   res == IF raised THEN [attempts |-> 0, states |-> ipo_states]
                          ELSE check_ipo_symbol(symbol, o.info, ipo_states)
               IN  /\ ipo_states' = IF raised THEN EmptyDict ELSE res.states
                   /\ lastCheck' = Check("ipo", symbol, o, ipo_states, res.states, o.info,
                                         res.attempts, res.attempts = 1 /\ delivered,
                                         raised, o.all_failed, hist[symbol])
                   /\ hist' = IF raised THEN hist
                              ELSE [hist EXCEPT ![symbol] =
                                       [run |-> runs, value |-> o.info.status,
                                        failed |-> o.all_failed,
                                        good |-> IF o.all_failed THEN hist[symbol].good
                                                 ELSE o.info.status,
                                        price |-> NoneNum]]
                   /\ ipo_watchlist' = IF raised THEN <<>> ELSE Tail(ipo_watchlist)
                   /\ pc' = IF raised THEN "idle" ELSE pc
                   /\ exit_code' = IF raised THEN "1" ELSE exit_code
    /\ UNCHANGED <<env, files, volatility_watchlist, upcoming_ipos,
                   volatility_states, upcoming_ipo_states,
                   upcHist>>

\* line 244
IpoSave ==
    /\ pc = "ipo_check"
    /\ ipo_watchlist = <<>>
    /\ \E outcome \in Saves("ipo") :
           ipoStateFile' = save_state(ipoStateFile, ipo_states, outcome)
    /\ ipo_states' = EmptyDict
    /\ pc' = "vol"
    /\ lastCheck' = NoCheck
    /\ UNCHANGED <<exit_code, env, ipoWatchFile, volWatchFile, upcWatchFile,
                   ipoDatesFile, volStateFile, upcStateFile, ipo_watchlist,
                   volatility_watchlist, upcoming_ipos, volatility_states,
                   upcoming_ipo_states, hist, upcHist>>

\* lines 249-257, the else branch
VolWatchlistEmpty ==
    /\ pc = "vol"
    /\ get_volatility_watchlist(volWatchFile) = <<>>
    /\ pc' = "refresh"
    /\ lastCheck' = NoCheck
    /\ UNCHANGED <<exit_code, env, files, locals, hist, upcHist>>

\* lines 249-252
VolLoad ==
    /\ pc = "vol"
    /\ get_volatility_watchlist(volWatchFile) # <<>>
    /\ \E readable \in Readables("volatility") :
           /\ volatility_states' = load_state(volStateFile, readable)
           /\ lastCheck' = LoadCheck(volStateFile, readable,
                                     load_state(volStateFile, readable))
    /\ volatility_watchlist' = get_volatility_watchlist(volWatchFile)
    /\ pc' = "vol_check"
    /\ UNCHANGED <<exit_code, env, files, ipo_watchlist, upcoming_ipos, ipo_states,
                   upcoming_ipo_states, hist, upcHist>>

\* lines 253-254: one iteration, check_volatility_symbol and the notifier's
\* answer; a raised exception ends the process with a traceback (status 1)
VolCheck ==
    /\ pc = "vol_check"
    /\ volatility_watchlist # <<>>
    /\ LET symbol == Head(volatility_watchlist)
       IN  \E answer \in VolAnswers(symbol), delivered \in Deliveries("volatility") :
               LET res == check_volatility_symbol(symbol, answer, volatility_states)
               IN  /\ volatility_states' = IF res.raised THEN EmptyDict ELSE res.states
                   /\ lastCheck' = Check("vol", symbol, answer, volatility_states, res.states,
                                         res.info, res.attempts,
                                         res.attempts = 1 /\ delivered, res.raised,
                                         VolFetchFailed(symbol, answer), hist[symbol])
                   /\ hist' = IF res.raised \/ Truthy(res.info.error) THEN hist
                              ELSE [hist EXCEPT ![symbol] =
                                       [run |-> runs, value |-> res.info.movement,
                                        failed |-> FALSE,
                                        good |-> res.info.movement,
                                        price |-> IF TruthyNum(res.info.current_price)
                                                  THEN res.info.current_price
                                                  ELSE hist[symbol].price]]
                   /\ volatility_watchlist' =
                          IF res.raised THEN <<>> ELSE Tail(volatility_watchlist)
                   /\ pc' = IF res.raised THEN "idle" ELSE pc
                   /\ exit_code' = IF res.raised THEN "1" ELSE exit_code
    /\ UNCHANGED <<env, files, ipo_watchlist, upcoming_ipos, ipo_states,
                   upcoming_ipo_states,
                   upcHist>>

\* line 255
VolSave ==
    /\ pc = "vol_check"
    /\ volatility_watchlist = <<>>
    /\ \E outcome \in Saves("volatility") :
           volStateFile' = save_state(volStateFile, volatility_states, outcome)
    /\ volatility_states' = EmptyDict
    /\ pc' = "refresh"
    /\ lastCheck' = NoCheck
    /\ UNCHANGED <<exit_code, env, ipoWatchFile, volWatchFile, upcWatchFile,
                   ipoDatesFile, ipoStateFile, upcStateFile, ipo_watchlist,
                   volatility_watchlist, upcoming_ipos, ipo_states,
                   upcoming_ipo_states, hist, upcHist>>

(***************************************************************************)
(* The watchlist refresh (src/src/config.py, src/src/ipo_data_sources.py)  *)
(***************************************************************************)
MAX_DAYS_AHEAD == 7

DAYS_AFTER_IPO_TO_KEEP == 2

\* the merged record of one symbol (the fields the watchlists read)
IPOData(symbol, expected_date) ==
    [symbol |-> symbol, company_name |-> "Co", expected_date |-> expected_date]

\* IPOData.days_until
days_until(ipo, day) ==
    IF ipo.expected_date # NoneNum THEN Num(Val(ipo.expected_date) - day) ELSE NoneNum

ValidIpo_NoUpperEnd(ipo, day) ==
    LET days == days_until(ipo, day)
    IN  days # NoneNum /\ 0 =< Val(days)

\* fetch_all_sources, lines 88-93: the date-range filter
ValidIpo(ipo, day) ==
    LET days == days_until(ipo, day)
    IN  days # NoneNum /\ 0 =< Val(days) /\ Val(days) =< MAX_DAYS_AHEAD

\* fetch_upcoming_ipos: the valid IPOs among what the sources reported
fetch_upcoming_ipos(found, day) ==
    LET valid == {s \in DOMAIN found : ValidIpo(IPOData(s, found[s]), day)}
        order == Sorted(valid)
    IN  [i \in 1..Len(order) |-> IPOData(order[i], found[order[i]])]

\* refresh_upcoming_ipo_watchlist, lines 298-306: one row of the file
WatchlistRow(ipo) ==
    [symbol |-> ipo.symbol,
     date |-> format_date(ipo),
     company |-> IF Truthy(ipo.company_name) THEN ipo.company_name ELSE "-"]

\* get_upcoming_ipo_watchlist, lines 181-191: one row parsed
ParseRow(row) ==
    UpcomingIPOEntry(row.symbol, row.date,
                     IF row.company # "-" /\ row.company # "" THEN row.company ELSE None)

get_upcoming_ipo_watchlist(file) ==
    IF ~file.exists THEN <<>>
    ELSE [i \in 1..Len(file.lines) |-> ParseRow(file.lines[i])]

\* sync_ipo_watchlist_from_upcoming, lines 385-391
RECURSIVE AddUpcoming(_, _, _)
AddUpcoming(ipo_dates, upcoming, i) ==
    IF i > Len(upcoming) THEN ipo_dates
    ELSE AddUpcoming(IF upcoming[i].expected_date # NoneNum
                     THEN Put(ipo_dates, upcoming[i].symbol,
                              strftime(Val(upcoming[i].expected_date)))
                     ELSE ipo_dates,
                     upcoming, i + 1)

KeepTicker_NoGraceDays(date_str, day) ==
    LET ipo_date == strptime(date_str, "%Y-%m-%d")
    IN  IF ipo_date = NoneNum THEN TRUE
        ELSE ~(day - Val(ipo_date) > 0)

\* lines 397-411: a ticker stays until its date + DAYS_AFTER_IPO_TO_KEEP
KeepTicker(date_str, day) ==
    LET ipo_date == strptime(date_str, "%Y-%m-%d")
    IN  IF ipo_date = NoneNum THEN TRUE
        ELSE ~(day - (Val(ipo_date) + DAYS_AFTER_IPO_TO_KEEP) > 0)

\* sync_ipo_watchlist_from_upcoming: the IPO watchlist file and the dates
\* file afterwards
sync_ipo_watchlist_from_upcoming(ipo_dates_file, upcoming, day) ==
    LET ipo_dates == AddUpcoming(ipo_dates_file, upcoming, 1)
        keep == {s \in DOMAIN ipo_dates : KeepTicker(ipo_dates[s], day)}
    IN  [watchlist |-> Sorted(keep),
         dates |-> [s \in keep |-> ipo_dates[s]]]

\* main.py line 261: refresh_upcoming_ipo_watchlist()
Refresh_BeforeIpoChecks ==
    /\ pc = "ipo"
    /\ \E found \in FetchResults :
           LET valid_ipos == fetch_upcoming_ipos(found, today)
               synced == sync_ipo_watchlist_from_upcoming(ipoDatesFile, valid_ipos, today)
           IN  /\ upcWatchFile' =
                   WatchlistFile([i \in 1..Len(valid_ipos) |-> WatchlistRow(valid_ipos[i])])
               /\ ipoWatchFile' = WatchlistFile(synced.watchlist)
               /\ ipoDatesFile' = synced.dates
    /\ lastCheck' = NoCheck
    /\ UNCHANGED <<pc, exit_code, env, volWatchFile, ipoStateFile, volStateFile,
                   upcStateFile, locals, hist, upcHist>>

Refresh ==
    /\ pc = "refresh"
    /\ \E found \in FetchResults :
           LET valid_ipos == fetch_upcoming_ipos(found, today)
               synced == sync_ipo_watchlist_from_upcoming(ipoDatesFile, valid_ipos, today)
           IN  /\ upcWatchFile' =
                   WatchlistFile([i \in 1..Len(valid_ipos) |-> WatchlistRow(valid_ipos[i])])
               /\ ipoWatchFile' = WatchlistFile(synced.watchlist)
               /\ ipoDatesFile' = synced.dates
    /\ pc' = "upc_load"
    /\ lastCheck' = NoCheck
    /\ UNCHANGED <<exit_code, env, volWatchFile, ipoStateFile, volStateFile,
                   upcStateFile, locals, hist, upcHist>>

\* what the NASDAQ calendar of check_upcoming_ipos may hold for a symbol
NasdaqInfos == {NoNasdaqInfo, NasdaqInfo("Co", DateStr("%m/%d/%Y", MaxDay))}

\* main.py lines 263-264 and process_upcoming_ipos lines 172-181:
\* the watchlist is read, the state loaded, the entries evaluated
UpcLoad ==
    /\ pc = "upc_load"
    /\ \E readable \in Readables("upcoming") :
           /\ upcoming_ipo_states' = load_state(upcStateFile, readable)
           /\ lastCheck' = LoadCheck(upcStateFile, readable,
                                     load_state(upcStateFile, readable))
    /\ \E nasdaq_info \in NasdaqInfos :
           LET watchlist == get_upcoming_ipo_watchlist(upcWatchFile)
           IN  upcoming_ipos' =
                   [i \in 1..Len(watchlist) |->
                        [entry |-> watchlist[i], nasdaq_info |-> nasdaq_info,
                         ipo |-> _check_single_ipo(watchlist[i], nasdaq_info, today)]]
    /\ pc' = "upc_check"
    /\ UNCHANGED <<exit_code, env, files, ipo_watchlist, volatility_watchlist,
                   ipo_states, volatility_states, hist, upcHist>>

\* process_upcoming_ipos lines 183-218: one iteration
UpcCheck ==
    /\ pc = "upc_check"
    /\ upcoming_ipos # <<>>
    /\ LET ipo == Head(upcoming_ipos).ipo
       IN  \E delivered \in Deliveries("upcoming") :
               LET res == process_one_upcoming(ipo, today, delivered, upcoming_ipo_states)
               IN  /\ upcoming_ipo_states' = res.states
                   /\ lastCheck' = Check("upc", ipo.symbol,
                                         [entry |-> Head(upcoming_ipos).entry,
                                          nasdaq_info |-> Head(upcoming_ipos).nasdaq_info],
                                         upcoming_ipo_states,
                                         res.states, ipo, res.attempts,
                                         res.attempts = 1 /\ delivered, FALSE, FALSE,
                                         upcHist[ipo.symbol])
                   /\ upcHist' = IF res.attempts = 1 /\ delivered
                                 THEN [upcHist EXCEPT ![ipo.symbol] =
                                          [run |-> runs, day |-> today,
                                           expected |-> ipo.expected_date,
                                           count |-> IF upcHist[ipo.symbol].expected
                                                        = ipo.expected_date
                                                     THEN upcHist[ipo.symbol].count + 1
                                                     ELSE 1]]
                                 ELSE upcHist
    /\ upcoming_ipos' = Tail(upcoming_ipos)
    /\ UNCHANGED <<pc, exit_code, env, files, ipo_watchlist, volatility_watchlist,
                   ipo_states, volatility_states, hist>>

\* main.py lines 266-269
UpcSave ==
    /\ pc = "upc_check"
    /\ upcoming_ipos = <<>>
    /\ \E outcome \in Saves("upcoming") :
           upcStateFile' = save_state(upcStateFile, upcoming_ipo_states, outcome)
    /\ upcoming_ipo_states' = EmptyDict
    /\ pc' = "idle"
    /\ exit_code' = "0"
    /\ lastCheck' = NoCheck
    /\ UNCHANGED <<env, ipoWatchFile, volWatchFile, upcWatchFile, ipoDatesFile,
                   ipoStateFile, volStateFile, ipo_watchlist, volatility_watchlist,
                   upcoming_ipos, ipo_states, volatility_states, hist, upcHist>>

\* the three state files
StateFiles ==
    [ipo |-> ipoStateFile, vol |-> volStateFile, upc |-> upcStateFile]

\* the process is stopped (killed, power loss) between two steps of a run
Kill ==
    /\ pc # "idle"
    /\ pc' = "idle"
    /\ exit_code' = "killed"
    /\ ipo_watchlist' = <<>>
    /\ volatility_watchlist' = <<>>
    /\ upcoming_ipos' = <<>>
    /\ ipo_states' = EmptyDict
    /\ volatility_states' = EmptyDict
    /\ upcoming_ipo_states' = EmptyDict
    /\ lastCheck' = Check("kill", None, None, StateFiles, StateFiles, NoInfo, 0,
                          FALSE, FALSE, FALSE, NoHist)
    /\ UNCHANGED <<env, files, hist, upcHist>>

\* save_state lines 61-62: the process is stopped after open(state_file, "w")
\* has truncated the file and before json.dump has written all of it
KillInSave ==
    /\ \/ pc = "ipo_check" /\ ipo_watchlist = <<>> /\ scenario = "ipo"
          /\ ipoStateFile' = save_state(ipoStateFile, ipo_states, "write_failed")
          /\ UNCHANGED <<volStateFile, upcStateFile>>
       \/ pc = "vol_check" /\ volatility_watchlist = <<>> /\ scenario = "volatility"
          /\ volStateFile' = save_state(volStateFile, volatility_states, "write_failed")
          /\ UNCHANGED <<ipoStateFile, upcStateFile>>
       \/ pc = "upc_check" /\ upcoming_ipos = <<>> /\ scenario = "upcoming"
          /\ upcStateFile' = save_state(upcStateFile, upcoming_ipo_states, "write_failed")
          /\ UNCHANGED <<ipoStateFile, volStateFile>>
    /\ pc' = "idle"
    /\ exit_code' = "killed"
    /\ ipo_states' = EmptyDict
    /\ volatility_states' = EmptyDict
    /\ upcoming_ipo_states' = EmptyDict
    /\ lastCheck' = Check("kill", None, None, StateFiles, StateFiles', NoInfo, 0,
                          FALSE, FALSE, FALSE, NoHist)
    /\ UNCHANGED <<env, ipoWatchFile, volWatchFile, upcWatchFile, ipoDatesFile,
                   ipo_watchlist, volatility_watchlist, upcoming_ipos, hist, upcHist>>

(***************************************************************************)
(* The deployments explored: one that tracks the tickers of the IPO        *)
(* calendar, one that watches prices, one that follows the calendar.       *)
(***************************************************************************)
Symbols == Range(Tickers) \cup Range(VolSymbols)

Init ==
    /\ pc = "idle"
    /\ today = 0
    /\ runs = 0
    /\ exit_code = None
    /\ scenario \in Scenarios
    /\ ipoWatchFile = IF scenario = "ipo" THEN WatchlistFile(Tickers) ELSE NoWatchlistFile
    /\ ipoDatesFile = IF scenario = "ipo"
                      THEN [s \in Range(Tickers) |-> strftime(MaxDay)]
                      ELSE EmptyDict
    /\ volWatchFile = IF scenario = "volatility" THEN WatchlistFile(VolSymbols)
                      ELSE NoWatchlistFile
    /\ upcWatchFile = NoWatchlistFile
    /\ ipoStateFile = NoFile
    /\ volStateFile = NoFile
    /\ upcStateFile = NoFile
    /\ ipo_watchlist = <<>>
    /\ volatility_watchlist = <<>>
    /\ upcoming_ipos = <<>>
    /\ ipo_states = EmptyDict
    /\ volatility_states = EmptyDict
    /\ upcoming_ipo_states = EmptyDict
    /\ lastCheck = NoCheck
    /\ hist = [s \in Symbols |-> NoHist]
    /\ upcHist = [s \in Range(Tickers) |-> NoUpcHist]

Next ==
    \/ BeginRun
    \/ ConfigError
    \/ ConfigOk
    \/ IpoWatchlistEmpty
    \/ IpoLoad
    \/ IpoCheck
    \/ IpoSave
    \/ VolWatchlistEmpty
    \/ VolLoad
    \/ VolCheck
    \/ VolSave
    \/ Refresh
    \/ UpcLoad
    \/ UpcCheck
    \/ UpcSave
    \/ Kill
    \/ KillInSave

Spec == Init /\ [][Next]_vars

(***************************************************************************)
(* The checks on their own: check_ipo_symbol, check_volatility_symbol and  *)
(* one upcoming-IPO evaluation, each applied once to any state map and any *)
(* input of its signature.                                                 *)
(***************************************************************************)
\* the calendar day of the checks
UnitToday == 1

\* status strings a state file may hold: the values of IPOStatus, and others
PersistedStatuses == {StatusValue(st) : st \in IPOStatus} \cup {"unknown", "halted"}

\* the entries of the first ticker an IPO state map may hold
UnitIpoEntries ==
    {[status |-> v, company_name |-> "Co", exchange |-> None, price |-> None] :
        v \in PersistedStatuses}
        \cup {[company_name |-> "Co"]}

UnitIpoMaps == {EmptyDict} \cup {[t \in {Tickers[1]} |-> e] : e \in UnitIpoEntries}

\* the entries of the first symbol a volatility state map may hold
UnitVolEntries ==
    {[price |-> Num(p), company_name |-> "Co", currency |-> "USD"] :
        p \in {0} \cup PriceSamples}
        \cup {[company_name |-> "Co"]}

UnitVolMaps == {EmptyDict} \cup {[t \in {VolSymbols[1]} |-> e] : e \in UnitVolEntries}

\* the entries of the first ticker an upcoming-IPO state map may hold
UnitUpcEntries ==
    {[last_alert_date |-> strftime(d), expected_date |-> strftime(UnitToday),
      company_name |-> "Co"] : d \in {UnitToday - 1, UnitToday}}
        \cup {[expected_date |-> strftime(UnitToday), company_name |-> "Co"]}

UnitUpcMaps == {EmptyDict} \cup {[t \in {Tickers[1]} |-> e] : e \in UnitUpcEntries}

\* the formats a date string may be written in; the last one is not parsed
UnitFormats == {"%Y-%m-%d", "%m/%d/%Y", "%m/%d/%y", "%Y/%m/%d", "%B %d, %Y"}

\* the days a date string may name: yesterday to the day after the window
UnitDays == (UnitToday - 1)..(UnitToday + ALERT_DAYS_BEFORE + 1)

UnitDateStrs == {NoDateStr, TBD} \cup {DateStr(f, d) : f \in UnitFormats, d \in UnitDays}

UnitEntries ==
    {UpcomingIPOEntry(Tickers[1], ds, c) : ds \in UnitDateStrs, c \in {None, "Co"}}

UnitNasdaqInfos ==
    {NoNasdaqInfo, NasdaqInfo("Nasdaq Co", NoDateStr),
     NasdaqInfo("Nasdaq Co", DateStr("%Y-%m-%d", UnitToday + 1))}

\* what the sources may report for a ticker: no date, yesterday, today, the
\* last day of the range and the day after it
UnitFetchDates ==
    {NoneNum} \cup {Num(d) : d \in {UnitToday - 1, UnitToday,
                                     UnitToday + MAX_DAYS_AHEAD,
                                     UnitToday + MAX_DAYS_AHEAD + 1}}

UnitFetchResults == UNION {[S -> UnitFetchDates] : S \in SUBSET Range(Tickers)}

\* the dates ipo_watchlist_dates.json may hold for a ticker: the day after
\* the cutoff, the cutoff day, a day ahead, and a string that is no date
UnitTrackedDates ==
    {strftime(d) : d \in {UnitToday - DAYS_AFTER_IPO_TO_KEEP - 1,
                          UnitToday - DAYS_AFTER_IPO_TO_KEEP,
                          UnitToday + 1}}
        \cup {DateStr("%B %d, %Y", UnitToday - DAYS_AFTER_IPO_TO_KEEP - 1)}

UnitDatesFiles == UNION {[S -> UnitTrackedDates] : S \in SUBSET Range(Tickers)}

\* the upcoming watchlist file before the refresh: none, or one that lists
\* the second ticker
UnitUpcWatchFiles ==
    {NoWatchlistFile,
     WatchlistFile(<<WatchlistRow(IPOData(Tickers[2], Num(UnitToday)))>>)}

InitUnit ==
    /\ pc = "unit"
    /\ today = UnitToday
    /\ runs = 0
    /\ exit_code = None
    /\ scenario \in Scenarios \cup {"refresh"}
    /\ ipoWatchFile = NoWatchlistFile
    /\ ipoDatesFile \in IF scenario = "refresh" THEN UnitDatesFiles ELSE {EmptyDict}
    /\ volWatchFile = NoWatchlistFile
    /\ upcWatchFile \in IF scenario = "refresh" THEN UnitUpcWatchFiles
                        ELSE {NoWatchlistFile}
    /\ ipoStateFile = NoFile
    /\ volStateFile = NoFile
    /\ upcStateFile = NoFile
    /\ ipo_watchlist = <<>>
    /\ volatility_watchlist = <<>>
    /\ upcoming_ipos = <<>>
    /\ ipo_states \in IF scenario = "ipo" THEN UnitIpoMaps ELSE {EmptyDict}
    /\ volatility_states \in IF scenario = "volatility" THEN UnitVolMaps ELSE {EmptyDict}
    /\ upcoming_ipo_states \in IF scenario = "upcoming" THEN UnitUpcMaps ELSE {EmptyDict}
    /\ lastCheck = NoCheck
    /\ hist = [s \in Symbols |-> NoHist]
    /\ upcHist = [s \in Range(Tickers) |-> NoUpcHist]

\* check_status on any replies of the three sources
UnitCheckStatus ==
    /\ pc = "unit"
    /\ scenario = "ipo"
    /\ pc' = "checked"
    /\ \E yahoo \in YahooAnswers, nasdaq \in NasdaqAnswers,
          marketwatch \in MarketWatchAnswers :
           LET symbol == Tickers[1]
               info == check_status(symbol, yahoo, nasdaq, marketwatch)
           IN  lastCheck' =
                   Check("status", symbol,
                         [yahoo |-> yahoo, nasdaq |-> nasdaq, marketwatch |-> marketwatch],
                         EmptyDict, EmptyDict,
                         [result |-> info,
                          consulted |-> sources_consulted(symbol, yahoo, nasdaq,
                                                          marketwatch)],
                         0, FALSE, info = AttributeError, FALSE, NoHist)
    /\ UNCHANGED <<exit_code, env, files, locals, hist, upcHist>>

\* refresh_upcoming_ipo_watchlist on any report of the sources, any tracked
\* dates and any watchlist file
UnitRefresh ==
    /\ pc = "unit"
    /\ scenario = "refresh"
    /\ pc' = "checked"
    /\ \E found \in UnitFetchResults :
           LET valid_ipos == fetch_upcoming_ipos(found, today)
               synced == sync_ipo_watchlist_from_upcoming(ipoDatesFile, valid_ipos, today)
           IN  /\ upcWatchFile' =
                   WatchlistFile([i \in 1..Len(valid_ipos) |-> WatchlistRow(valid_ipos[i])])
               /\ ipoWatchFile' = WatchlistFile(synced.watchlist)
               /\ ipoDatesFile' = synced.dates
               /\ lastCheck' = Check("refresh", None,
                                     [found |-> found, watchlist |-> upcWatchFile],
                                     ipoDatesFile, synced.dates, NoInfo, 0,
                                     FALSE, FALSE, FALSE, NoHist)
    /\ UNCHANGED <<exit_code, env, volWatchFile, ipoStateFile, volStateFile,
                   upcStateFile, locals, hist, upcHist>>

\* check_ipo_symbol on a status the classifier returned
UnitIpoCheck ==
    /\ pc = "unit"
    /\ scenario = "ipo"
    /\ pc' = "checked"
    /\ \E status \in IPOStatus, delivered \in BOOLEAN :
           LET symbol == Tickers[1]
               ipo_info == IPOInfo(symbol, status, "Co", "NYSE", None)
               res == check_ipo_symbol(symbol, ipo_info, ipo_states)
           IN  /\ ipo_states' = res.states
               /\ lastCheck' = Check("ipo", symbol, ipo_info, ipo_states, res.states,
                                     ipo_info, res.attempts,
                                     res.attempts = 1 /\ delivered, FALSE, FALSE, NoHist)
    /\ UNCHANGED <<exit_code, env, files, ipo_watchlist, volatility_watchlist,
                   upcoming_ipos, volatility_states, upcoming_ipo_states, hist, upcHist>>

\* check_volatility_symbol on an answer of the chart request; after a raise
\* the map is as before
UnitVolCheck ==
    /\ pc = "unit"
    /\ scenario = "volatility"
    /\ pc' = "checked"
    /\ \E answer \in VolAnswers(VolSymbols[1]), delivered \in BOOLEAN :
           LET symbol == VolSymbols[1]
               res == check_volatility_symbol(symbol, answer, volatility_states)
           IN  /\ volatility_states' = res.states
               /\ lastCheck' = Check("vol", symbol, answer, volatility_states, res.states,
                                     res.info, res.attempts,
                                     res.attempts = 1 /\ delivered, res.raised,
                                     VolFetchFailed(symbol, answer), NoHist)
    /\ UNCHANGED <<exit_code, env, files, ipo_watchlist, volatility_watchlist,
                   upcoming_ipos, ipo_states, upcoming_ipo_states, hist, upcHist>>

\* _check_single_ipo and one iteration of process_upcoming_ipos on an entry
UnitUpcCheck ==
    /\ pc = "unit"
    /\ scenario = "upcoming"
    /\ pc' = "checked"
    /\ \E entry \in UnitEntries, nasdaq_info \in UnitNasdaqInfos, delivered \in BOOLEAN :
           LET ipo == _check_single_ipo(entry, nasdaq_info, today)
               res == process_one_upcoming(ipo, today, delivered, upcoming_ipo_states)
           IN  /\ upcoming_ipo_states' = res.states
               /\ lastCheck' = Check("upc", ipo.symbol,
                                     [entry |-> entry, nasdaq_info |-> nasdaq_info],
                                     upcoming_ipo_states, res.states, ipo, res.attempts,
                                     res.attempts = 1 /\ delivered, FALSE, FALSE, NoHist)
    /\ UNCHANGED <<exit_code, env, files, ipo_watchlist, volatility_watchlist,
                   upcoming_ipos, ipo_states, volatility_states, hist, upcHist>>

NextUnit ==
    \/ UnitCheckStatus
    \/ UnitRefresh
    \/ UnitIpoCheck
    \/ UnitVolCheck
    \/ UnitUpcCheck

SpecUnit == InitUnit /\ [][NextUnit]_vars

(***************************************************************************)
(* Properties                                                              *)
(***************************************************************************)
\* C1: in every IPO symbol check, whatever status string the state map holds
\* for the symbol (or none) and whatever IPOStatus the classifier returns,
\* exactly one notification attempt is made if the previous status differs
\* from the current one and the current one is SUBSCRIPTION_OPEN,
\* ALLOTMENT_DONE, LISTED or TRADING, and none otherwise; an absent previous
\* status differs from every status.
C1_AlertIffChangeToAlertStatus ==
    lastCheck.kind = "ipo" =>
        LET previous_state == GetOr(lastCheck.before, lastCheck.symbol, EmptyDict)
            changed == \/ "status" \notin DOMAIN previous_state
                       \/ previous_state.status # StatusValue(lastCheck.info.status)
            alert_worthy == lastCheck.info.status \in
                                {"SUBSCRIPTION_OPEN", "ALLOTMENT_DONE", "LISTED", "TRADING"}
        IN  lastCheck.attempts = IF changed /\ alert_worthy THEN 1 ELSE 0

\* C1, its case: a first observation that lands on LISTED fires
C1_FirstObservationFires ==
    /\ lastCheck.kind = "ipo"
    /\ lastCheck.symbol \notin DOMAIN lastCheck.before
    /\ lastCheck.info.status = "LISTED"
    /\ lastCheck.attempts = 1

\* C2: if two consecutive runs classify an IPO symbol with the same status,
\* the second run makes no notification attempt for it.
C2_NoRepeatOnConsecutiveRuns ==
    (/\ lastCheck.kind = "ipo"
     /\ lastCheck.prior.run > 0
     /\ lastCheck.prior.run = runs - 1
     /\ lastCheck.prior.value = lastCheck.info.status)
        => lastCheck.attempts = 0

\* C3: over any sequence of runs, a run that classifies an IPO symbol as the
\* last run that classified it did makes no notification attempt, also when
\* the notifier reported failure or a state-file write failed in between.
C3_AtMostOncePerTransition ==
    (/\ lastCheck.kind = "ipo"
     /\ lastCheck.prior.run > 0
     /\ lastCheck.prior.value = lastCheck.info.status)
        => lastCheck.attempts = 0

\* C4: when every source fetch for an IPO symbol fails, the check leaves the
\* symbol's state entry as it was and makes no notification attempt, and
\* the next check, classifying the symbol with the status recorded before
\* the failure, makes none either.
C4_FetchFailureKeepsIpoState ==
    /\ (/\ lastCheck.kind = "ipo"
        /\ lastCheck.all_failed
        /\ lastCheck.symbol \in DOMAIN lastCheck.before)
           => /\ lastCheck.after = lastCheck.before
              /\ lastCheck.attempts = 0
    /\ (/\ lastCheck.kind = "ipo"
        /\ lastCheck.prior.failed
        /\ lastCheck.prior.good = lastCheck.info.status)
           => lastCheck.attempts = 0

\* C5: when the price fetch for a symbol reports an error (network failure,
\* error payload, symbol mismatch, missing price), check_volatility_symbol
\* makes no notification attempt, computes no movement and leaves the
\* in-memory state map exactly as it was.
C5_VolatilityFetchFailureIsSkipped ==
    (lastCheck.kind = "vol" /\ lastCheck.all_failed)
        => /\ lastCheck.attempts = 0
           /\ ~lastCheck.raised
           /\ lastCheck.info.movement = "NONE"
           /\ lastCheck.info.change_percent = NoneNum
           /\ lastCheck.after = lastCheck.before

\* C5, its case: the fetch fails for a symbol that has an entry
C5_FailedFetchWithEntry ==
    /\ lastCheck.kind = "vol"
    /\ lastCheck.all_failed
    /\ lastCheck.input.kind = "request_error"
    /\ lastCheck.symbol \in DOMAIN lastCheck.before
    /\ lastCheck.after = lastCheck.before

\* C6: a volatility check makes a notification attempt if and only if its
\* movement is RALLY or DROP, whatever the movement of earlier runs; and
\* the movement is RALLY or DROP only when a previous price was recorded
\* and the reported change_percent is at least 5.00 in absolute value,
\* RALLY for a positive change and DROP for a negative one.
C6_AlertIffMovement ==
    lastCheck.kind = "vol" =>
        LET info == lastCheck.info
            previous_state == GetOr(lastCheck.before, lastCheck.symbol, EmptyDict)
        IN  /\ lastCheck.attempts = IF info.movement \in {"RALLY", "DROP"} THEN 1 ELSE 0
            /\ info.movement \in {"RALLY", "DROP"}
                   => /\ "price" \in DOMAIN previous_state
                      /\ info.previous_price = previous_state.price
                      /\ info.change_percent # NoneNum
            /\ info.movement = "RALLY" => Val(info.change_percent) >= 500
            /\ info.movement = "DROP" => Val(info.change_percent) =< -500

\* C6, its case: a rally is alerted in the run after a rally was
C6_RallyAfterRally ==
    /\ lastCheck.kind = "vol"
    /\ lastCheck.prior.value = "RALLY"
    /\ lastCheck.prior.run = runs - 1
    /\ lastCheck.info.movement = "RALLY"
    /\ lastCheck.attempts = 1

\* C7: for every current price and non-zero previous price the reported
\* change_percent is (current - previous) / previous * 100 rounded to two
\* decimals, and the movement is decided from the reported value: RALLY iff
\* it is >= 5.00, DROP iff it is <= -5.00, NONE otherwise.
C7_MovementFromReportedChange ==
    (lastCheck.kind = "vol" /\ lastCheck.info.change_percent # NoneNum)
        => LET info == lastCheck.info
               reported == Val(info.change_percent)
           IN  /\ reported = RoundDiv((Val(info.current_price) - Val(info.previous_price))
                                          * 10000,
                                      Val(info.previous_price))
               /\ info.movement = IF reported >= 500 THEN "RALLY"
                                  ELSE IF reported =< -500 THEN "DROP"
                                       ELSE "NONE"

\* C8: check_volatility called with previous_price 0 and a valid current
\* price returns a result without change_percent and with movement NONE; it
\* does not raise.
C8_ZeroPreviousPriceGuarded ==
    (/\ lastCheck.kind = "vol"
     /\ ~lastCheck.all_failed
     /\ GetNum(GetOr(lastCheck.before, lastCheck.symbol, EmptyDict), "price") = Num(0))
        => /\ ~lastCheck.raised
           /\ lastCheck.info.change_percent = NoneNum
           /\ lastCheck.info.movement = "NONE"

\* C9: the first observation of a volatility symbol (no previous price in
\* the state map, the fetch succeeds) has movement NONE and no
\* change_percent, makes no notification attempt, and records the current
\* price in the state map.
C9_FirstObservationRecordsBaseline ==
    (/\ lastCheck.kind = "vol"
     /\ ~lastCheck.all_failed
     /\ GetNum(GetOr(lastCheck.before, lastCheck.symbol, EmptyDict), "price") = NoneNum)
        => /\ lastCheck.info.movement = "NONE"
           /\ lastCheck.info.change_percent = NoneNum
           /\ lastCheck.attempts = 0
           /\ lastCheck.symbol \in DOMAIN lastCheck.after
           /\ lastCheck.after[lastCheck.symbol].price = lastCheck.input.price
           /\ \A s \in DOMAIN lastCheck.before : lastCheck.after[s] = lastCheck.before[s]

\* C9, its case: a first quote of a symbol is recorded
C9_FirstQuoteRecorded ==
    /\ lastCheck.kind = "vol"
    /\ ~lastCheck.all_failed
    /\ lastCheck.symbol \notin DOMAIN lastCheck.before
    /\ lastCheck.symbol \in DOMAIN lastCheck.after

\* C10: for every upcoming-IPO entry an alert is attempted if and only if
\* the expected date is known, 0 <= days_until <= 2 (the expected date minus
\* today) and the recorded last_alert_date of the symbol is not today; an
\* absent or unparsable date never fires.
C10_UpcomingAlertWindow ==
    lastCheck.kind = "upc" =>
        LET entry == lastCheck.input.entry
            nasdaq_info == lastCheck.input.nasdaq_info
            date_str == IF entry.expected_date # NoDateStr THEN entry.expected_date
                        ELSE nasdaq_info.expected_date
            known == date_str.fmt \in {"%Y-%m-%d", "%m/%d/%Y", "%m/%d/%y", "%Y/%m/%d"}
            days == date_str.day - today
            previous_state == GetOr(lastCheck.before, lastCheck.symbol, EmptyDict)
            alerted_today == /\ "last_alert_date" \in DOMAIN previous_state
                             /\ previous_state.last_alert_date = DateStr("%Y-%m-%d", today)
        IN  lastCheck.attempts =
                IF known /\ 0 =< days /\ days =< 2 /\ ~alerted_today THEN 1 ELSE 0

\* C10, its case: an entry two days ahead, written month first, fires
C10_TwoDaysAheadFires ==
    /\ lastCheck.kind = "upc"
    /\ lastCheck.input.entry.expected_date = DateStr("%m/%d/%Y", today + 2)
    /\ lastCheck.info.days_until_ipo = Num(2)
    /\ lastCheck.attempts = 1

\* C11: over the runs of one calendar day a symbol inside the alert window
\* gets at most one delivered upcoming-IPO notification: after a delivered
\* alert the symbol's state entry has last_alert_date equal to today, and a
\* later run on the day of a delivered alert makes no attempt for it.
C11_OneDeliveredAlertPerDay ==
    lastCheck.kind = "upc" =>
        /\ lastCheck.delivered =>
               /\ lastCheck.symbol \in DOMAIN lastCheck.after
               /\ "last_alert_date" \in DOMAIN lastCheck.after[lastCheck.symbol]
               /\ lastCheck.after[lastCheck.symbol].last_alert_date
                      = DateStr("%Y-%m-%d", today)
        /\ (lastCheck.prior.run > 0 /\ lastCheck.prior.day = today)
               => lastCheck.attempts = 0

\* C12: when an upcoming-IPO symbol has no state entry and is not inside the
\* alert window (should_alert is false), the check sends no notification and
\* creates an entry holding the formatted expected date ("TBD" when the date
\* is unknown) and the company name, without a last_alert_date.
C12_ColdStartRecordsEntry ==
    (/\ lastCheck.kind = "upc"
     /\ lastCheck.symbol \notin DOMAIN lastCheck.before
     /\ ~lastCheck.info.should_alert)
        => /\ lastCheck.attempts = 0
           /\ lastCheck.symbol \in DOMAIN lastCheck.after
           /\ lastCheck.after[lastCheck.symbol] =
                  [expected_date |->
                       IF lastCheck.info.expected_date # NoneNum
                       THEN DateStr("%Y-%m-%d", Val(lastCheck.info.expected_date))
                       ELSE TBD,
                   company_name |-> lastCheck.info.company_name]
           /\ \A s \in DOMAIN lastCheck.before :
                  lastCheck.after[s] = lastCheck.before[s]

\* C12, its case: a symbol without an entry whose date is unknown gets an
\* entry with "TBD" and no notification
C12_TbdEntryCreated ==
    /\ lastCheck.kind = "upc"
    /\ lastCheck.before = EmptyDict
    /\ lastCheck.info.expected_date = NoneNum
    /\ lastCheck.attempts = 0
    /\ lastCheck.symbol \in DOMAIN lastCheck.after
    /\ lastCheck.after[lastCheck.symbol].expected_date = TBD
    /\ "last_alert_date" \notin DOMAIN lastCheck.after[lastCheck.symbol]

\* C13: once a symbol has a state entry, every later check of the symbol
\* that succeeds overwrites the entry with the freshly observed values, in
\* each of the three kinds: status, company, exchange and price of an IPO;
\* price, company and currency of a volatility symbol; expected date and
\* company of an upcoming IPO.
C13_EntryOverwrittenEveryRun ==
    (/\ lastCheck.kind # "none"
     /\ lastCheck.symbol \in DOMAIN lastCheck.before
     /\ ~lastCheck.all_failed
     /\ ~lastCheck.raised)
        => /\ lastCheck.symbol \in DOMAIN lastCheck.after
           /\ lastCheck.kind = "ipo" =>
                  lastCheck.after[lastCheck.symbol] = IpoStateEntry(lastCheck.info)
           /\ lastCheck.kind = "vol" =>
                  lastCheck.after[lastCheck.symbol] = VolStateEntry(lastCheck.info)
           /\ lastCheck.kind = "upc" =>
                  /\ lastCheck.after[lastCheck.symbol].expected_date
                         = format_date(lastCheck.info)
                  /\ lastCheck.after[lastCheck.symbol].company_name
                         = lastCheck.info.company_name

\* C14: for each watchlist kind of a run the state file is read once, before
\* the first symbol is checked (the in-memory map starts as the file's map,
\* or empty when it cannot be loaded); the checks change only the in-memory
\* map; the file is written only in the one step after the last symbol, and
\* a completed write replaces the whole file by the in-memory map.  No
\* state file changes between two symbol checks.
C14_StateWriteDiscipline ==
    [][LET Discipline(old_file, new_file, old_map, new_map, check_pc, done) ==
               /\ new_file # old_file =>
                      /\ pc = check_pc
                      /\ done
                      /\ pc' # check_pc
                      /\ new_file.valid => new_file.data = old_map
               /\ (pc = check_pc /\ ~done) => new_file = old_file
               /\ (pc # check_pc /\ pc' = check_pc) =>
                      new_map \in {old_file.data, EmptyDict}
               /\ (pc # check_pc /\ pc' # check_pc) => new_map = old_map
       IN  /\ Discipline(ipoStateFile, ipoStateFile', ipo_states, ipo_states',
                         "ipo_check", ipo_watchlist = <<>>)
           /\ Discipline(volStateFile, volStateFile', volatility_states,
                         volatility_states', "vol_check", volatility_watchlist = <<>>)
           /\ Discipline(upcStateFile, upcStateFile', upcoming_ipo_states,
                         upcoming_ipo_states', "upc_check", upcoming_ipos = <<>>)]_vars

\* C14, its case: a later run has checked the first ticker and its save has
\* replaced the IPO state file by the map of this run
C14_FileReplacedAfterLastSymbol ==
    /\ pc = "vol"
    /\ runs > 1
    /\ hist[Tickers[1]].run = runs
    /\ ipoStateFile.valid
    /\ Tickers[1] \in DOMAIN ipoStateFile.data
    /\ ipoStateFile.data[Tickers[1]].status = StatusValue(hist[Tickers[1]].value)
    /\ hist[Tickers[1]].value # hist[Tickers[1]].good

\* C15: when the process stops at any point of a run, the middle of the
\* state write included, every state file that held a loadable map before
\* still holds a loadable map with an entry for every symbol it had.
C15_StateFileSurvivesCrash ==
    lastCheck.kind = "kill" =>
        \A k \in {"ipo", "vol", "upc"} :
            (lastCheck.before[k].exists /\ lastCheck.before[k].valid)
                => /\ lastCheck.after[k].exists
                   /\ lastCheck.after[k].valid
                   /\ DOMAIN lastCheck.before[k].data \subseteq DOMAIN lastCheck.after[k].data

\* C16: in each of the three pipelines, when the notifier reports failure
\* for a symbol, the newly observed state of the symbol is still recorded in
\* the in-memory map and the loop goes on to the later symbols and to the
\* write of the state file.
C16_DeliveryFailureStillRecords ==
    (lastCheck.attempts = 1 /\ ~lastCheck.delivered)
        => /\ lastCheck.symbol \in DOMAIN lastCheck.after
           /\ lastCheck.kind = "ipo" =>
                  /\ lastCheck.after[lastCheck.symbol] = IpoStateEntry(lastCheck.info)
                  /\ pc = "ipo_check"
                  /\ ipo_states = lastCheck.after
           /\ lastCheck.kind = "vol" =>
                  /\ lastCheck.after[lastCheck.symbol] = VolStateEntry(lastCheck.info)
                  /\ pc = "vol_check"
                  /\ volatility_states = lastCheck.after
           /\ lastCheck.kind = "upc" =>
                  /\ lastCheck.after[lastCheck.symbol].expected_date
                         = format_date(lastCheck.info)
                  /\ lastCheck.after[lastCheck.symbol].company_name
                         = lastCheck.info.company_name
                  /\ pc = "upc_check"
                  /\ upcoming_ipo_states = lastCheck.after

\* C17: main returns a non-zero exit code if and only if TELEGRAM_BOT_TOKEN
\* or TELEGRAM_CHAT_ID is missing; it then returns from the configuration
\* step, before any fetch, notification or write of a state file or
\* watchlist.  A run whose credentials are present returns 0 whatever
\* fetches and notifications failed in it.
C17_NonZeroExitIffCredentialMissing ==
    [][/\ lastCheck'.kind = "config" =>
              (exit_code' = "1"
                   <=> ~(lastCheck'.input.token /\ lastCheck'.input.chat_id))
       /\ (exit_code' = "1" /\ exit_code # "1") =>
              /\ pc = "config"
              /\ lastCheck'.kind = "config"
              /\ UNCHANGED <<files, locals, hist, upcHist>>
       /\ (pc \notin {"idle", "config"} /\ pc' = "idle" /\ exit_code' # "killed") =>
              exit_code' = "0"]_vars

\* C18: a watchlist file that does not exist is a fatal configuration
\* error: the run makes no fetch for a symbol and does not complete with
\* exit code 0 while the IPO or the volatility watchlist file is missing.
C18_MissingWatchlistIsFatal ==
    /\ lastCheck.kind \in {"ipo", "vol"} =>
           (ipoWatchFile.exists /\ volWatchFile.exists)
    /\ exit_code = "0" => volWatchFile.exists

\* C19: the status classifier consults Yahoo Finance, the NASDAQ calendar and
\* MarketWatch in this order and returns, unmerged, the result of the first
\* source whose result is definite (neither not-found nor a failure); the
\* sources after it are not consulted; when every source returns not-found
\* or fails the result is NOT_FOUND and no exception is raised.
C19_FirstDefiniteSourceWins ==
    lastCheck.kind = "status" =>
        LET symbol == lastCheck.symbol
            order == <<"yahoo", "nasdaq", "marketwatch">>
            results == <<_check_yahoo_finance(symbol, lastCheck.input.yahoo),
                         _check_nasdaq_ipo_calendar(symbol, lastCheck.input.nasdaq),
                         _check_marketwatch(symbol, lastCheck.input.marketwatch)>>
            definite == {i \in 1..3 : /\ results[i] \notin {NoInfo, AttributeError}
                                      /\ results[i].status # "NOT_FOUND"}
            first == IF definite = {} THEN 3
                     ELSE CHOOSE i \in definite : \A j \in definite : i =< j
        IN  /\ ~lastCheck.raised
            /\ lastCheck.info.consulted = SubSeq(order, 1, first)
            /\ lastCheck.info.result =
                   IF definite = {} THEN IPOInfo(symbol, "NOT_FOUND", None, None, None)
                   ELSE results[first]

\* C20: a source that shows a live quote (a price) yields TRADING; a NASDAQ
\* calendar entry yields SUBSCRIPTION_CLOSED when found in the priced section
\* and UPCOMING when found in the upcoming or the filed section; the sections
\* are searched in the order upcoming, priced, filed, so a symbol listed in
\* several sections takes the status of the first of them.
C20_SourceToStatusMapping ==
    (lastCheck.kind = "status" /\ ~lastCheck.raised) =>
        LET answers == lastCheck.input
            result == lastCheck.info.result
            found == answers.nasdaq.found
            from(source) ==
                lastCheck.info.consulted[Len(lastCheck.info.consulted)] = source
        IN  /\ answers.yahoo = "price" => result.status = "TRADING"
            /\ (from("marketwatch") /\ answers.marketwatch = "price")
                   => result.status = "TRADING"
            /\ (from("nasdaq") /\ found # {}) =>
                   /\ result.exchange = "NASDAQ"
                   /\ result.status =
                          IF "upcoming" \in found THEN "UPCOMING"
                          ELSE IF "priced" \in found THEN "SUBSCRIPTION_CLOSED"
                               ELSE "UPCOMING"
            /\ result.status \in {"TRADING", "SUBSCRIPTION_CLOSED", "UPCOMING", "NOT_FOUND"}

\* C20, its cases: a symbol listed in the priced and the filed section, with
\* no quote on Yahoo, is SUBSCRIPTION_CLOSED
C20_PricedBeforeFiled ==
    /\ lastCheck.kind = "status"
    /\ lastCheck.input.yahoo = "no_price"
    /\ lastCheck.input.nasdaq.found = {"priced", "filed"}
    /\ lastCheck.info.result.status = "SUBSCRIPTION_CLOSED"
    /\ lastCheck.info.consulted = <<"yahoo", "nasdaq">>

\* C21: a source that answers with the data of another ticker is treated as
\* not found (or as an error) for the requested symbol, in the IPO status
\* classifier and in the volatility price fetch: no status, price, alert or
\* state entry of the requested symbol comes from another ticker's data.
C21_SymbolMismatchNeverAccepted ==
    /\ (lastCheck.kind = "status" /\ ~lastCheck.raised) =>
           /\ lastCheck.info.result.company_name # "Other Co"
           /\ lastCheck.input.yahoo = "other_price" =>
                  Len(lastCheck.info.consulted) > 1
           /\ (lastCheck.input.marketwatch = "other_price"
                  /\ Len(lastCheck.info.consulted) = 3) =>
                  lastCheck.info.result.status = "NOT_FOUND"
    /\ (lastCheck.kind = "vol" /\ lastCheck.input.kind = "quote"
           /\ lastCheck.input.symbol # lastCheck.symbol) =>
           /\ lastCheck.attempts = 0
           /\ lastCheck.after = lastCheck.before
           /\ lastCheck.info.current_price = NoneNum

C23_RefreshKeepsExactlyTheValid ==
    lastCheck.kind = "refresh" =>
        LET found == lastCheck.input.found
            valid == {sym \in DOMAIN found :
                         /\ found[sym] # NoneNum
                         /\ 0 =< found[sym][1] - today
                         /\ found[sym][1] - today =< 7}
            rows == upcWatchFile.lines
        IN  /\ upcWatchFile.exists
            /\ {rows[i].symbol : i \in 1..Len(rows)} = valid
            /\ Len(rows) = Cardinality(valid)
            /\ \A i \in 1..Len(rows) :
                   rows[i].date = DateStr("%Y-%m-%d", found[rows[i].symbol][1])

\* C23, its case: the second ticker was in the file and no source reports it
\* now, the first is reported for the last day of the range: the file lists
\* the first ticker only
C23_StaleRowDropped ==
    /\ lastCheck.kind = "refresh"
    /\ lastCheck.input.watchlist.exists
    /\ DOMAIN lastCheck.input.found = {Tickers[1]}
    /\ lastCheck.input.found[Tickers[1]] = Num(today + MAX_DAYS_AHEAD)
    /\ Len(upcWatchFile.lines) = 1
    /\ upcWatchFile.lines[1].symbol = Tickers[1]

C25_ReachableIpoStatuses ==
    LET Returned == {"NOT_FOUND", "UPCOMING", "SUBSCRIPTION_CLOSED", "TRADING"}
        Persisted == {"not_found", "upcoming", "subscription_closed", "trading"}
    IN  /\ (lastCheck.kind = "ipo" /\ ~lastCheck.raised) =>
               /\ lastCheck.info.status \in Returned
               /\ lastCheck.attempts = 1 => lastCheck.info.status = "TRADING"
        /\ \A sym \in DOMAIN ipo_states : ipo_states[sym].status \in Persisted
        /\ \A sym \in DOMAIN ipoStateFile.data :
               ipoStateFile.data[sym].status \in Persisted

\* C25, its case: a ticker recorded as subscription_closed is found trading
\* and the alert is attempted
C25_TradingAlertAfterPriced ==
    /\ lastCheck.kind = "ipo"
    /\ lastCheck.symbol \in DOMAIN lastCheck.before
    /\ lastCheck.before[lastCheck.symbol].status = "subscription_closed"
    /\ lastCheck.info.status = "TRADING"
    /\ lastCheck.attempts = 1

\* C26: every volatility state entry that check_volatility_symbol writes has
\* a price that is neither null nor 0: starting without a state file, no
\* run leaves a price of 0 in memory or in the state file, and the division
\* by the previous price never has a zero divisor (no check raises).
C26_PersistedPriceNeverZero ==
    /\ \A sym \in DOMAIN volatility_states :
           volatility_states[sym].price \notin {NoneNum, Num(0)}
    /\ \A sym \in DOMAIN volStateFile.data :
           volStateFile.data[sym].price \notin {NoneNum, Num(0)}
    /\ lastCheck.kind = "vol" => ~lastCheck.raised

\* C26, its case: the source quoted a price of 0 for a symbol that has an
\* entry; nothing is recorded and the entry written before is kept
C26_ZeroQuoteNotRecorded ==
    /\ lastCheck.kind = "vol"
    /\ lastCheck.input.kind = "quote"
    /\ lastCheck.input.symbol = lastCheck.symbol
    /\ lastCheck.input.price = Num(0)
    /\ lastCheck.symbol \in DOMAIN lastCheck.before
    /\ lastCheck.after = lastCheck.before
    /\ volatility_states = lastCheck.after

\* C27: the volatility baseline moves on every check that obtains a price:
\* the symbol's entry then holds that price whether or not an alert was
\* attempted or delivered, so a check compares only with the observation
\* made just before it, and a price less than 5% away from the last price
\* obtained for the symbol triggers no alert.
C27_BaselineIsLastObservation ==
    (/\ lastCheck.kind = "vol"
     /\ ~lastCheck.raised
     /\ TruthyNum(lastCheck.info.current_price))
    => LET cur == lastCheck.info.current_price[1]
           last == lastCheck.prior.price
           Abs(n) == IF n < 0 THEN -n ELSE n
       IN  /\ lastCheck.symbol \in DOMAIN lastCheck.after
           /\ lastCheck.after[lastCheck.symbol].price = lastCheck.info.current_price
           /\ (/\ last # NoneNum
               /\ Abs(cur - last[1]) * 100 < VOLATILITY_THRESHOLD_PERCENT * last[1])
              => lastCheck.attempts = 0

\* C28: in process_upcoming_ipos last_alert_date is written only after a
\* delivered alert: a failed send leaves the state map exactly as it was
\* (no entry is created), a symbol inside the window for which no alert was
\* delivered today is attempted again, and a check that delivers nothing
\* neither removes nor alters any last_alert_date the map holds.
C28_LastAlertDateOnlyOnDelivery ==
    (lastCheck.kind = "upc" /\ ~lastCheck.delivered)
    => /\ lastCheck.attempts = 1 => lastCheck.after = lastCheck.before
       /\ (/\ lastCheck.info.should_alert
           /\ ~(lastCheck.prior.run > 0 /\ lastCheck.prior.day = today))
          => lastCheck.attempts = 1
       /\ \A sym \in DOMAIN lastCheck.before :
              GetOr(lastCheck.before[sym], "last_alert_date", NoDateStr) # NoDateStr
              => /\ sym \in DOMAIN lastCheck.after
                 /\ lastCheck.after[sym] = lastCheck.before[sym]

\* C28, its case: the send failed for a symbol alerted on an earlier day;
\* its entry still holds that day and the alert was attempted
C28_FailedSendKeepsEarlierDate ==
    /\ lastCheck.kind = "upc"
    /\ lastCheck.attempts = 1
    /\ ~lastCheck.delivered
    /\ lastCheck.symbol \in DOMAIN lastCheck.after
    /\ GetOr(lastCheck.after[lastCheck.symbol], "last_alert_date", NoDateStr)
           \notin {NoDateStr, strftime(today)}
    /\ upcoming_ipo_states = lastCheck.after

\* C29: within a run the IPO watchlist is read and all its symbols are
\* checked before refresh_upcoming_ipo_watchlist runs the sync that rewrites
\* the IPO watchlist file: the file changes only in the refresh step, after
\* the last IPO check; a ticker the sync adds was not IPO-checked in that
\* run; and the list a run processes is the file as the last sync left it.
C29_IpoChecksPrecedeSync ==
    [][/\ ipoWatchFile' # ipoWatchFile
          => /\ pc = "refresh"
             /\ ipo_watchlist = <<>>
             /\ \A sym \in Range(get_ipo_watchlist(ipoWatchFile'))
                            \ Range(get_ipo_watchlist(ipoWatchFile)) :
                    hist[sym].run # runs
       /\ (pc = "ipo" /\ pc' # "ipo")
          => /\ ipoWatchFile' = ipoWatchFile
             /\ ipo_watchlist' = IF pc' = "ipo_check" THEN ipoWatchFile.lines ELSE <<>>
       /\ lastCheck'.kind = "ipo"
          => /\ pc = "ipo_check"
             /\ ipoWatchFile' = ipoWatchFile
             /\ lastCheck'.symbol = Head(ipo_watchlist)
             /\ lastCheck'.symbol \in Range(ipoWatchFile.lines)]_vars

\* C29, its case: a ticker the sync of an earlier run promoted from the
\* upcoming list has just had its first IPO check
C29_PromotedCheckedNextRun ==
    /\ scenario = "upcoming"
    /\ lastCheck.kind = "ipo"
    /\ lastCheck.prior.run = 0
    /\ runs > 1
    /\ hist[lastCheck.symbol].run = runs
    /\ lastCheck.symbol \in DOMAIN ipoDatesFile

\* C30: for an upcoming IPO whose expected date does not change, the
\* notifications delivered for the symbol number at most one per calendar
\* day with days_until in 0..2 (so never more than ALERT_DAYS_BEFORE + 1),
\* and none is delivered on a day with days_until above 2 or below 0.
C30_AtMostOneAlertPerWindowDay ==
    /\ \A sym \in DOMAIN upcHist :
           upcHist[sym].expected # NoneNum
           => LET expected == Val(upcHist[sym].expected)
                  first == IF expected - ALERT_DAYS_BEFORE > 0
                           THEN expected - ALERT_DAYS_BEFORE ELSE 0
                  last == IF today < expected THEN today ELSE expected
              IN  /\ upcHist[sym].count =< last - first + 1
                  /\ upcHist[sym].count =< ALERT_DAYS_BEFORE + 1
    /\ (lastCheck.kind = "upc" /\ lastCheck.delivered)
       => /\ lastCheck.info.days_until_ipo # NoneNum
          /\ Val(lastCheck.info.days_until_ipo) \in 0..ALERT_DAYS_BEFORE

=============================================================================
